---- MODULE Spec2Model ----
(***************************************************************************)
(* Model of src/mcts_general/game.py: the DeepCopyableGame hierarchy       *)
(* (DiscreteGymGame, ContinuousGymGame, GymGameWithMacroActions,           *)
(* GymGameDoingMultipleStepsInSimulations,                                 *)
(* PendulumGameWithEngineeredMacroActions).                                *)
(*                                                                         *)
(* Python objects live in a heap: `games` holds the game instances,        *)
(* `heap` the environment objects they reference through `env`.  The       *)
(* attribute `rand` of every instance is the module numpy.random, so       *)
(* there is one generator for the whole program: the variable `rand`.      *)
(* An exception is modelled as a result whose kind is the exception name.  *)
(***************************************************************************)
EXTENDS Integers, Sequences, FiniteSets, TLC

\* ------------------------------------------------------------------ bounds
MaxGames == 2
NumActions == 2
EnvStates == 3
TimeLimit == 2
MaxSeed == 1
RngMod == 3
MaxMacroLen == 2
MaxCap == 2
MaxTorque == 1
MaxRenders == 2

GameIds == 1..MaxGames
SeedSet == 0..MaxSeed
None == "None"
NoSeed == 0 - 1   \* seed=None, and a generator never seeded by the program
Kinds == {"Discrete", "Continuous", "Macro", "Multi", "Pendulum"}
MacroKinds == {"Macro", "Multi", "Pendulum"}

Min(a, b) == IF a < b THEN a ELSE b
Max(a, b) == IF a > b THEN a ELSE b
Abs(x) == IF x < 0 THEN 0 - x ELSE x
Sign(x) == IF x < 0 THEN 0 - 1 ELSE IF x > 0 THEN 1 ELSE 0
Range(n) == [i \in 1..n |-> i - 1]
Ones(n, a) == [i \in 1..n |-> a]

\* ------------------------------------------------- the global numpy.random
\* numpy.random.seed(seed): the generator state becomes a function of seed.
RandSeed(r, seed) == [st |-> seed % RngMod, seeded |-> seed]
\* one raw draw: the state advances, the output is a function of the state.
RandNext(r) == [r EXCEPT !.st = (r.st + 1) % RngMod]
\* numpy.random.randint(1e9)
RandInt(r) == RandNext(r).st
\* numpy.random.random_integers(0, high), high >= 0
RandomIntegers(r, high) == RandNext(r).st % (high + 1)
\* numpy.random.normal(mu, sigma), on the integers
Normal(r, mu, sigma) == mu + sigma * ((RandNext(r).st % 3) - 1)

\* --------------------------------------------- the wrapped gym environment
\* An environment object: position s, elapsed steps t, its own seed, and the
\* flags render() and close() set.
NewEnv(eseed) ==
  [s |-> (EnvStates \div 2 + eseed) % EnvStates, t |-> 0, eseed |-> eseed,
   viewer |-> FALSE, closed |-> FALSE]
NoEnv == [s |-> 0 - 1, t |-> 0 - 1, eseed |-> 0 - 1, viewer |-> FALSE, closed |-> FALSE]

ThetaDot(e) == e.s - EnvStates \div 2
\* env.step(action) -> (obs, rew, terminated, truncated, info)
EnvStep(e, delta) ==
  IF e.closed
  THEN [kind |-> "EnvironmentClosed", env |-> e, obs |-> 0, rew |-> 0,
        terminated |-> FALSE, truncated |-> FALSE]
  ELSE LET s2 == Max(0, Min(EnvStates - 1, e.s + delta))
           e2 == [e EXCEPT !.s = s2, !.t = Min(TimeLimit, e.t + 1)]
       IN [kind |-> "ok", env |-> e2, obs |-> s2, rew |-> 0 - Abs(ThetaDot(e2)),
           terminated |-> s2 = EnvStates - 1, truncated |-> e2.t >= TimeLimit]
\* env.reset(seed=seed)
EnvReset(e, seed) ==
  LET es == IF seed = NoSeed THEN e.eseed ELSE seed
  IN [NewEnv(es) EXCEPT !.viewer = e.viewer, !.closed = e.closed]
\* env.seed(seed)
EnvSeed(e, seed) == [e EXCEPT !.eseed = seed]
\* env.render(), env.close()
EnvRender(e) == [e EXCEPT !.viewer = TRUE]
EnvClose(e) == [e EXCEPT !.viewer = FALSE, !.closed = TRUE]
\* DiscreteActionWrapper: index -> primitive action of the wrapped environment
Primitive(a) == 2 * a - 1

\* ------------------------------------------------------- program state
VARIABLES
  games,   \* the game instances: GameIds -> game object (live or not)
  heap,    \* the environment objects: EnvIds -> environment
  rand,    \* numpy.random, the generator every instance's self.rand names
  ret,     \* the last call: operation, receiver, arguments, what it returned
  shadow,  \* history: each game's environment as its own calls alone make it
  renders, \* history: the current run of successive render() calls of one game
  fresh,   \* history: the seed a game set, while it made no call since
  repro,   \* history: progress through set_seed; sample; set_seed; sample
  track    \* which history is kept: "step", "legal", "copy", "render", "seed"
           \* or "repro"

vars == <<games, heap, rand, ret, shadow, renders, fresh, repro, track>>

EnvIds == 0..MaxGames   \* 0 holds the objects local to one call
NoGame ==
  [live |-> FALSE, kind |-> None, env |-> 0, seed |-> 0, render_copy |-> 0,
   macro |-> <<>>, n |-> 0, cap |-> 0, mu |-> 0, sigma |-> 0]

\* (In ret, same tells whether the call left every environment and the
\* generator as they were.)
\* What a call returns: kind is "ok" or the name of the exception raised;
\* env is the environment as the call leaves it; arity is the length of the
\* returned tuple; rew/div is the reward as a fraction.
Result(kind, e, obs, rew, div, done, arity) ==
  [kind |-> kind, env |-> e, obs |-> obs, rew |-> rew, div |-> div,
   done |-> done, arity |-> arity]
Raise(name, e) == Result(name, e, 0, 0, 1, FALSE, 0)

\* --------------------------------------------------------------- step
\* GymGame.step, from the tuple env.step returned
StepTuple(r) ==
  IF r.kind # "ok" THEN Raise(r.kind, r.env)
  ELSE Result("ok", r.env, r.obs, r.rew, 1, r.terminated \/ r.truncated, 3)

\* GymGame.step
GymGame_step(e, action) == StepTuple(EnvStep(e, action))

\* DiscreteGymGame.step; the wrapped environment reads the index as Primitive
DiscreteGymGame_step(e, action) == GymGame_step(e, Primitive(action))

\* ContinuousGymGame.step
ContinuousGymGame_step(e, action) == GymGame_step(e, action)

\* "obs, reward, done, _ = ..." binds a tuple of exactly four values
Unpack4(r) == r.arity = 4

\* the loop of GymGameWithMacroActions.step, from the k-th primitive on
RECURSIVE MacroLoop(_, _, _, _)
RECURSIVE MacroLoopBody(_, _, _, _)
MacroLoop(e, mac_act, k, acc) ==
  IF k > Len(mac_act)
  THEN IF Len(mac_act) = 0 THEN Raise("ZeroDivisionError", e)
       ELSE Result("ok", e, acc.obs, acc.rew, Len(mac_act), acc.done, 3)
  ELSE MacroLoopBody(DiscreteGymGame_step(e, mac_act[k]), mac_act, k, acc)

\* one iteration of that loop, r being what super().step(a) returned
MacroLoopBody(r, mac_act, k, acc) ==
  IF r.kind # "ok" THEN r
  ELSE IF ~Unpack4(r) THEN Raise("ValueError", r.env)
  ELSE MacroLoop(r.env, mac_act, k + 1,
                 [obs |-> r.obs, rew |-> acc.rew + r.rew, done |-> r.done])

\* the else branch of GymGameWithMacroActions.step, r being what
\* super().step(action) returned
Evaluation(r) ==
  IF r.kind # "ok" THEN r
  ELSE IF ~Unpack4(r) THEN Raise("ValueError", r.env)
  ELSE Result("ok", r.env, r.obs, r.rew, 1, r.done, 3)

\* GymGameWithMacroActions.step with the macro-action table already read
GymGameWithMacroActions_step(e, table, action, simulation) ==
  IF simulation
  THEN MacroLoop(e, table[action + 1], 1, [obs |-> 0, rew |-> 0, done |-> FALSE])
  ELSE Evaluation(DiscreteGymGame_step(e, action))

\* ----------------------------------------------------------- get_copy
\* (mutant) a shallow copy: the copy names the environment object of the original
deepcopy_shallow(h, src, dst) == [heap |-> h, ref |-> src]

\* copy.deepcopy(self.env): a new environment object at dst, equal in value
deepcopy(h, src, dst) == [heap |-> [h EXCEPT ![dst] = h[src]], ref |-> dst]

\* DeepCopyableGame.__init__ .. GymGameWithMacroActions.__init__: the fields
\* of a new instance; self.rand names numpy.random and nothing is seeded
NewGame(kind, ref, seed, macro, n, cap, mu, sigma) ==
  [live |-> TRUE, kind |-> kind, env |-> ref, seed |-> seed, render_copy |-> 0,
   macro |-> macro, n |-> n, cap |-> cap, mu |-> mu, sigma |-> sigma]

\* GymGameDoingMultipleStepsInSimulations.__init__: one macro-action per
\* primitive, the primitive repeated n times
MultiTable(n) == [i \in 1..NumActions |-> Ones(n, i - 1)]

\* the instance get_copy returns, c being the copied environment
CopyOf(gm, c, r) ==
  [game |-> NewGame(gm.kind, c.ref, RandInt(r),
                    CASE gm.kind = "Macro" -> gm.macro
                      [] gm.kind = "Multi" -> MultiTable(gm.n)
                      [] OTHER -> <<>>,
                    gm.n, gm.cap, gm.mu, gm.sigma),
   heap |-> c.heap, rand |-> RandNext(r)]

\* get_copy of every variant: the copy is built around deepcopy(self.env)
\* and stores the seed drawn by self.rand.randint(1e9)
get_copy(gm, h, r, dst) == CopyOf(gm, deepcopy(h, gm.env, dst), r)

\* ------------------------------------------------------ macro_actions
\* theta_dot, the third component of the observation
ObsThetaDot(obs) == obs - EnvStates \div 2

\* the while loop of PendulumGameWithEngineeredMacroActions.macro_actions
RECURSIVE DynLoop(_, _, _, _, _)
RECURSIVE DynLoopBody(_, _, _, _, _)
DynLoop(e, action, sign, cur, cap) ==
  IF sign = Sign(cur.theta_dot) /\ cur.it <= cap /\ ~cur.done
  THEN DynLoopBody(GymGameWithMacroActions_step(e, <<>>, action, FALSE),
                   action, sign, cur, cap)
  ELSE [kind |-> "ok", it |-> cur.it, env |-> e]

\* one iteration of the while loop, r being what game_copy.step returned
DynLoopBody(r, action, sign, cur, cap) ==
  IF r.kind # "ok" THEN [kind |-> r.kind, it |-> cur.it, env |-> r.env]
  ELSE IF r.arity # 3 THEN [kind |-> "ValueError", it |-> cur.it, env |-> r.env]
  ELSE DynLoop(r.env, action, sign,
               [theta_dot |-> ObsThetaDot(r.obs), done |-> r.done, it |-> cur.it + 1],
               cap)

\* numpy.ones(it) * action appended, l being how the while loop ended
DynAppend(c, l, action) ==
  [kind |-> l.kind, mac |-> Ones(l.it, action),
   heap |-> [c.heap EXCEPT ![c.game.env] = l.env], rand |-> c.rand]

\* the body of the for loop after the first game_copy.step(action), which
\* returned first: sign, it = 1 and the while loop
DynAfterFirst(c, first, action, cap) ==
  IF first.kind # "ok" \/ first.arity # 3
  THEN [kind |-> IF first.kind # "ok" THEN first.kind ELSE "ValueError",
        mac |-> <<>>, heap |-> [c.heap EXCEPT ![c.game.env] = first.env],
        rand |-> c.rand]
  ELSE DynAppend(c, DynLoop(first.env, action, Sign(ObsThetaDot(first.obs)),
                            [theta_dot |-> ObsThetaDot(first.obs),
                             done |-> first.done, it |-> 1], cap),
                 action)

\* the body of the for loop, c being the copy self.get_copy() returned
DynOnCopy(c, action, cap) ==
  DynAfterFirst(c, GymGameWithMacroActions_step(c.heap[c.game.env], <<>>, action, FALSE),
                action, cap)

\* one iteration of the for loop: the macro-action of one primitive, found
\* on a copy of the game (the copy is local to the call: object 0)
DynMacro(gm, h, r, action) == DynOnCopy(get_copy(gm, h, r, 0), action, gm.cap)

\* PendulumGameWithEngineeredMacroActions.macro_actions, from primitive a on
RECURSIVE PendulumMacroActions(_, _, _, _, _)
RECURSIVE PendulumAppend(_, _, _, _)
PendulumMacroActions(gm, h, r, a, table) ==
  IF a >= NumActions THEN [kind |-> "ok", table |-> table, heap |-> h, rand |-> r]
  ELSE PendulumAppend(gm, DynMacro(gm, h, r, a), a, table)

\* macro_actions.append(...) and the next iteration, m being the macro-action
PendulumAppend(gm, m, a, table) ==
  IF m.kind # "ok"
  THEN [kind |-> m.kind, table |-> <<>>, heap |-> m.heap, rand |-> m.rand]
  ELSE PendulumMacroActions(gm, m.heap, m.rand, a + 1, Append(table, m.mac))

\* the objects local to a call are released when it returns
Release(m) == [m EXCEPT !.heap = [m.heap EXCEPT ![0] = NoEnv]]

\* the property macro_actions of the macro-action variants
macro_actions(gm, h, r) ==
  IF gm.kind = "Pendulum"
  THEN Release(PendulumMacroActions(gm, h, r, 0, <<>>))
  ELSE [kind |-> "ok", table |-> gm.macro, heap |-> h, rand |-> r]

\* ------------------------------------------------------ legal_actions
Low == 0 - MaxTorque
High == MaxTorque

\* [i for i in range(len(self.macro_actions))], m being the table read
Indexes(m) ==
  [kind |-> m.kind, heap |-> m.heap, rand |-> m.rand,
   list |-> IF m.kind = "ok" THEN Range(Len(m.table)) ELSE <<>>]

\* (mutant) legal_actions ignoring the simulation flag
legal_actions_primitive(gm, h, r, simulation) ==
  IF gm.kind = "Continuous"
  THEN [kind |-> "ok", list |-> <<Low, High>>, heap |-> h, rand |-> r]
  ELSE [kind |-> "ok", list |-> Range(NumActions), heap |-> h, rand |-> r]

legal_actions(gm, h, r, simulation) ==
  IF gm.kind = "Continuous"
  THEN [kind |-> "ok", list |-> <<Low, High>>, heap |-> h, rand |-> r]
  ELSE IF gm.kind \in MacroKinds /\ simulation
  THEN Indexes(macro_actions(gm, h, r))
  ELSE [kind |-> "ok", list |-> Range(NumActions), heap |-> h, rand |-> r]

\* ------------------------------------------------------ sample_action
Clip(x, lo, hi) == Max(lo, Min(hi, x))

\* the draw of sample_action, la being what legal_actions returned and r the
\* generator before the call
Draw(gm, la, r) ==
  IF gm.kind = "Continuous"
  THEN [kind |-> "ok", val |-> Clip(Normal(r, gm.mu, gm.sigma), la.list[1], la.list[2]),
        heap |-> la.heap, rand |-> RandNext(r)]
  ELSE IF la.kind # "ok"
  THEN [kind |-> la.kind, val |-> 0, heap |-> la.heap, rand |-> la.rand]
  ELSE IF Len(la.list) = 0
  THEN [kind |-> "ValueError", val |-> 0, heap |-> la.heap, rand |-> la.rand]
  ELSE [kind |-> "ok", val |-> la.list[RandomIntegers(la.rand, Len(la.list) - 1) + 1],
        heap |-> la.heap, rand |-> RandNext(la.rand)]

sample_action(gm, h, r, simulation) == Draw(gm, legal_actions(gm, h, r, simulation), r)

\* ------------------------------------------------- step of each variant
\* a call's result with the environment it leaves stored in the heap
Stored(gm, res, h, r) ==
  [res |-> res, heap |-> [h EXCEPT ![gm.env] = res.env], rand |-> r]

\* GymGameWithMacroActions.step(action, simulation=True), m being what
\* self.macro_actions gave
Simulation(gm, m, action) ==
  IF m.kind # "ok"
  THEN [res |-> Raise(m.kind, m.heap[gm.env]), heap |-> m.heap, rand |-> m.rand]
  ELSE IF action >= Len(m.table)
  THEN [res |-> Raise("IndexError", m.heap[gm.env]), heap |-> m.heap, rand |-> m.rand]
  ELSE Stored(gm, GymGameWithMacroActions_step(m.heap[gm.env], m.table, action, TRUE),
              m.heap, m.rand)

step(gm, h, r, action, simulation) ==
  CASE gm.kind = "Discrete" -> Stored(gm, DiscreteGymGame_step(h[gm.env], action), h, r)
    [] gm.kind = "Continuous" ->
         Stored(gm, ContinuousGymGame_step(h[gm.env], action), h, r)
    [] OTHER ->
         IF simulation
         THEN Simulation(gm, macro_actions(gm, h, r), action)
         ELSE Stored(gm, GymGameWithMacroActions_step(h[gm.env], <<>>, action, FALSE),
                     h, r)

\* ------------------------------------------------------ close, render
\* GymGame.close: closes the environment and the render copy's
RECURSIVE close(_, _, _)
close(h, gs, g) ==
  IF gs[g].render_copy # 0
  THEN close([h EXCEPT ![gs[g].env] = EnvClose(h[gs[g].env])], gs, gs[g].render_copy)
  ELSE [h EXCEPT ![gs[g].env] = EnvClose(h[gs[g].env])]

FreeIds == {i \in GameIds : ~games[i].live}
FirstFree == CHOOSE i \in FreeIds : \A j \in FreeIds : i <= j

\* self.render_copy = self.get_copy(); self.render_copy.env.render(), c
\* being what get_copy returned
Rendered(gs, g, c, dst) ==
  [games |-> [gs EXCEPT ![dst] = c.game, ![g].render_copy = dst],
   heap |-> [c.heap EXCEPT ![c.game.env] = EnvRender(c.heap[c.game.env])],
   rand |-> c.rand]

\* (mutant) render closing the game itself instead of its previous render copy
render_closing_self(gs, h, r, g, dst) ==
  Rendered(gs, g,
           get_copy(gs[g], IF gs[g].render_copy = 0 THEN h ELSE close(h, gs, g), r, dst),
           dst)

\* GymGame.render: the frame is drawn by a copy; the copy of the previous
\* call is closed and replaced (its object is reused for the new copy)
render(gs, h, r, g, dst) ==
  Rendered(gs, g,
           get_copy(gs[g],
                    IF gs[g].render_copy = 0 THEN h
                    ELSE close(h, gs, gs[g].render_copy), r, dst),
           dst)

\* ---------------------------------------------------- set_seed, reset
\* (mutant) set_seed storing the seed without seeding the generator
set_seed_stored_only(gm, r, seed) == [game |-> [gm EXCEPT !.seed = seed], rand |-> r]

\* DeepCopyableGame.set_seed
DeepCopyableGame_set_seed(gm, r, seed) ==
  [game |-> [gm EXCEPT !.seed = seed], rand |-> RandSeed(r, seed)]

\* GymGame.set_seed
set_seed(gm, h, r, seed) ==
  [game |-> DeepCopyableGame_set_seed(gm, r, seed).game,
   rand |-> DeepCopyableGame_set_seed(gm, r, seed).rand,
   heap |-> [h EXCEPT ![gm.env] = EnvSeed(h[gm.env], seed)]]

\* GymGame.reset
reset(gm, h, seed) == [h EXCEPT ![gm.env] = EnvReset(h[gm.env], seed)]

\* DeepCopyableGame.get_seed
get_seed(gm) == gm.seed

\* ------------------------------------------------------ history records
Ret0 ==
  [op |-> "init", g |-> 0, sim |-> FALSE, arg |-> 0, kind |-> "ok", obs |-> 0,
   rew |-> 0, div |-> 1, done |-> FALSE, val |-> 0, list |-> <<>>,
   before |-> NoEnv, seeded |-> NoSeed, same |-> TRUE]
NoRenders == [g |-> 0, count |-> 0, before |-> NoEnv]
Repro0 ==
  [phase |-> 0, g |-> 0, s |-> 0, sim |-> FALSE, kind |-> "ok", val |-> 0,
   kind2 |-> "ok", val2 |-> 0]

ReproSetSeed(g, s) ==
  IF repro.phase \in {2, 4} /\ repro.g = g /\ repro.s = s
  THEN [repro EXCEPT !.phase = 3, !.kind = IF repro.phase = 4 THEN repro.kind2 ELSE @,
                     !.val = IF repro.phase = 4 THEN repro.val2 ELSE @,
                     !.kind2 = "ok", !.val2 = 0]
  ELSE [Repro0 EXCEPT !.phase = 1, !.g = g, !.s = s]
ReproSample(g, sim, kind, val) ==
  IF repro.phase = 3 /\ repro.g = g /\ repro.sim = sim
  THEN [repro EXCEPT !.phase = 4, !.kind2 = kind, !.val2 = val]
  ELSE IF repro.phase \in {1, 3} /\ repro.g = g
  THEN [Repro0 EXCEPT !.phase = 2, !.g = g, !.s = repro.s, !.sim = sim,
                      !.kind = kind, !.val = val]
  ELSE Repro0

NoFresh == [i \in GameIds |-> NoSeed]

\* the part of a call's record the kept history reads
Keep(r) ==
  CASE track = "step" -> [r EXCEPT !.seeded = NoSeed]
    [] track = "seed" ->
         [Ret0 EXCEPT !.op = r.op, !.g = r.g, !.sim = r.sim, !.kind = r.kind,
                      !.val = r.val, !.seeded = r.seeded]
    [] track = "legal" /\ r.op = "legal_actions" /\ r.sim ->
         [Ret0 EXCEPT !.op = r.op, !.g = r.g, !.sim = r.sim, !.kind = r.kind,
                      !.list = r.list, !.before = r.before, !.same = r.same]
    [] OTHER -> Ret0
KeepRenders(r) == IF track = "render" THEN r ELSE NoRenders
KeepFresh(f) == IF track = "seed" THEN f ELSE NoFresh
KeepRepro(r) == IF track = "repro" THEN r ELSE Repro0
\* the heap with game g's environment as g's own calls alone make it
ShadowHeap(g) == [heap EXCEPT ![games[g].env] = shadow[g]]

\* ------------------------------------------------------------- actions
IsRenderCopy(g) == \E i \in GameIds : games[i].live /\ games[i].render_copy = g
\* the instances the planner holds: constructed by it or returned by get_copy
Callable(g) == games[g].live /\ ~IsRenderCopy(g)

LegalNow(g, simulation) ==
  CASE games[g].kind = "Continuous" -> Low..High
    [] games[g].kind \in {"Macro", "Multi"} /\ simulation ->
         0..(Len(games[g].macro) - 1)
    [] OTHER -> 0..(NumActions - 1)

Step(g, action, simulation) ==
  /\ Callable(g)
  /\ action \in LegalNow(g, simulation)
  /\ \E o \in {step(games[g], heap, rand, action, simulation)},
        os \in {step(games[g], ShadowHeap(g), rand, action, simulation)} :
        /\ heap' = o.heap
        /\ rand' = o.rand
        /\ shadow' = [shadow EXCEPT ![g] = os.heap[games[g].env]]
        /\ ret' = Keep([Ret0 EXCEPT !.op = "step", !.g = g, !.sim = simulation,
                               !.arg = action, !.kind = o.res.kind, !.obs = o.res.obs,
                               !.rew = o.res.rew, !.div = o.res.div,
                               !.done = o.res.done, !.before = heap[games[g].env]])
  /\ renders' = NoRenders
  /\ fresh' = NoFresh
  /\ repro' = Repro0
  /\ UNCHANGED <<games, track>>

LegalActions(g, simulation) ==
  /\ Callable(g)
  /\ \E o \in {legal_actions(games[g], heap, rand, simulation)},
        os \in {legal_actions(games[g], ShadowHeap(g), rand, simulation)} :
        /\ heap' = o.heap
        /\ rand' = o.rand
        /\ shadow' = [shadow EXCEPT ![g] = os.heap[games[g].env]]
        /\ ret' = Keep([Ret0 EXCEPT !.op = "legal_actions", !.g = g, !.sim = simulation,
                               !.kind = o.kind, !.list = o.list,
                               !.before = heap[games[g].env],
                               !.same = (o.heap = heap /\ o.rand = rand)])
  /\ renders' = NoRenders
  /\ fresh' = NoFresh
  /\ repro' = Repro0
  /\ UNCHANGED <<games, track>>

SampleAction(g, simulation) ==
  /\ Callable(g)
  /\ \E o \in {sample_action(games[g], heap, rand, simulation)},
        os \in {sample_action(games[g], ShadowHeap(g), rand, simulation)} :
        /\ heap' = o.heap
        /\ rand' = o.rand
        /\ shadow' = [shadow EXCEPT ![g] = os.heap[games[g].env]]
        /\ ret' = Keep([Ret0 EXCEPT !.op = "sample_action", !.g = g, !.sim = simulation,
                               !.kind = o.kind, !.val = o.val,
                               !.before = heap[games[g].env], !.seeded = fresh[g]])
        /\ repro' = KeepRepro(ReproSample(g, simulation, o.kind, o.val))
  /\ renders' = NoRenders
  /\ fresh' = KeepFresh([fresh EXCEPT ![g] = NoSeed])
  /\ UNCHANGED <<games, track>>

GetCopy(g) ==
  /\ Callable(g)
  /\ FreeIds # {}
  /\ \E dst \in {FirstFree} : \E o \in {get_copy(games[g], heap, rand, dst)} :
        /\ games' = [games EXCEPT ![dst] = o.game]
        /\ heap' = o.heap
        /\ rand' = o.rand
        /\ shadow' = [shadow EXCEPT ![dst] = shadow[g]]
        /\ ret' = Keep([Ret0 EXCEPT !.op = "get_copy", !.g = g, !.val = dst,
                               !.before = heap[games[g].env]])
        /\ fresh' = KeepFresh([fresh EXCEPT ![g] = NoSeed, ![dst] = NoSeed])
  /\ renders' = NoRenders
  /\ repro' = Repro0
  /\ UNCHANGED track

Render(g) ==
  /\ Callable(g)
  /\ games[g].render_copy # 0 \/ FreeIds # {}
  /\ \E dst \in {IF games[g].render_copy # 0 THEN games[g].render_copy ELSE FirstFree} :
     \E o \in {render(games, heap, rand, g, dst)} :
        /\ games' = o.games
        /\ heap' = o.heap
        /\ rand' = o.rand
        /\ shadow' = [shadow EXCEPT ![dst] = o.heap[o.games[dst].env]]
        /\ ret' = Keep([Ret0 EXCEPT !.op = "render", !.g = g, !.val = dst,
                               !.before = heap[games[g].env]])
        /\ renders' = KeepRenders(
                        IF renders.g = g
                        THEN [renders EXCEPT !.count = Min(MaxRenders, @ + 1)]
                        ELSE [g |-> g, count |-> 1, before |-> heap[games[g].env]])
        /\ fresh' = KeepFresh([fresh EXCEPT ![g] = NoSeed, ![dst] = NoSeed])
  /\ repro' = Repro0
  /\ UNCHANGED track

SetSeed(g, seed) ==
  /\ Callable(g)
  /\ \E o \in {set_seed(games[g], heap, rand, seed)},
        os \in {set_seed(games[g], ShadowHeap(g), rand, seed)} :
        /\ games' = [games EXCEPT ![g] = o.game]
        /\ heap' = o.heap
        /\ rand' = o.rand
        /\ shadow' = [shadow EXCEPT ![g] = os.heap[games[g].env]]
        /\ ret' = Keep([Ret0 EXCEPT !.op = "set_seed", !.g = g, !.arg = seed,
                               !.before = heap[games[g].env]])
  /\ renders' = NoRenders
  /\ fresh' = KeepFresh([fresh EXCEPT ![g] = seed])
  /\ repro' = KeepRepro(ReproSetSeed(g, seed))
  /\ UNCHANGED track

Reset(g, seed) ==
  /\ Callable(g)
  /\ heap' = reset(games[g], heap, seed)
  /\ shadow' = [shadow EXCEPT ![g] = reset(games[g], ShadowHeap(g), seed)[games[g].env]]
  /\ ret' = Keep([Ret0 EXCEPT !.op = "reset", !.g = g, !.arg = seed,
                         !.obs = heap'[games[g].env].s, !.before = heap[games[g].env]])
  /\ renders' = NoRenders
  /\ fresh' = NoFresh
  /\ repro' = Repro0
  /\ UNCHANGED <<games, rand, track>>

\* ------------------------------------------------------- construction
MacroTables == {<<>>, <<Ones(MaxMacroLen, 0), <<>>>>}

\* the instances a program can construct, around environment object 1
Constructed ==
  {NewGame("Discrete", 1, 0, <<>>, 0, 0, 0, 0),
   NewGame("Continuous", 1, 0, <<>>, 0, 0, 0, MaxTorque + 1),
   NewGame("Multi", 1, 0, MultiTable(MaxMacroLen), MaxMacroLen, 0, 0, 0),
   NewGame("Pendulum", 1, 0, <<>>, 0, MaxCap, 0, 0)}
  \cup {NewGame("Macro", 1, 0, table, 0, 0, 0, 0) : table \in MacroTables}

Init ==
  /\ \E gm \in Constructed : games = [i \in GameIds |-> IF i = 1 THEN gm ELSE NoGame]
  /\ heap = [i \in EnvIds |-> IF i = 1 THEN NewEnv(0) ELSE NoEnv]
  /\ \E st \in 0..(RngMod - 1) : rand = [st |-> st, seeded |-> NoSeed]
  /\ ret = Ret0
  /\ shadow = [i \in GameIds |-> heap[i]]
  /\ renders = NoRenders
  /\ fresh = NoFresh
  /\ repro = Repro0

StepAny == \E g \in GameIds, a \in Low..NumActions, sim \in BOOLEAN : Step(g, a, sim)
LegalActionsAny == \E g \in GameIds, sim \in BOOLEAN : LegalActions(g, sim)
SampleActionAny == \E g \in GameIds, sim \in BOOLEAN : SampleAction(g, sim)
GetCopyAny == \E g \in GameIds : GetCopy(g)
RenderAny == \E g \in GameIds : Render(g)
SetSeedAny == \E g \in GameIds, seed \in SeedSet : SetSeed(g, seed)
ResetAny == \E g \in GameIds, seed \in SeedSet \cup {NoSeed} : Reset(g, seed)

\* every operation of the planner-facing API
Next ==
  \/ StepAny
  \/ LegalActionsAny
  \/ SampleActionAny
  \/ GetCopyAny
  \/ RenderAny
  \/ SetSeedAny
  \/ ResetAny

\* reset() with its default argument
ResetDefault == \E g \in GameIds : Reset(g, NoSeed)

\* the operations that advance and query a game
NextStep == StepAny \/ LegalActionsAny \/ GetCopyAny \/ ResetAny
\* the operations a planner explores branches with
NextCopy == GetCopyAny \/ StepAny \/ LegalActionsAny \/ ResetDefault
\* the operations that advance and query one game
NextLegal == LegalActionsAny \/ StepAny \/ ResetAny
\* the operations around rendering
NextRender == RenderAny \/ StepAny \/ GetCopyAny
\* the operations that seed a generator or draw from it
NextSeed == SetSeedAny \/ SampleActionAny \/ GetCopyAny \/ RenderAny

\* one specification per kept history
InitStep == Init /\ track = "step"
InitLegal == Init /\ track = "legal"
InitCopy == Init /\ track = "copy"
InitRender == Init /\ track = "render"
InitSeed == Init /\ track = "seed"
InitRepro == Init /\ track = "repro"
SpecStep == InitStep /\ [][NextStep]_vars
SpecLegal == InitLegal /\ [][NextLegal]_vars
SpecCopy == InitCopy /\ [][NextCopy]_vars
SpecRender == InitRender /\ [][NextRender]_vars
SpecSeed == InitSeed /\ [][NextSeed]_vars
SpecRepro == InitRepro /\ [][NextSeed]_vars
\* every operation, no history kept
Spec == InitCopy /\ [][Next]_vars

\* =================================================================== claims
\* what the caller of step receives
Returned(res) == <<res.kind, res.obs, res.rew, res.div, res.done>>
RandStates == {[rand EXCEPT !.st = st] : st \in 0..(RngMod - 1)}
\* the heap with game g's environment replaced by e
HeapWith(g, e) == [heap EXCEPT ![games[g].env] = e]

\* every answer game g can give to step and legal_actions, with its
\* environment taken from the heap h
Answers(g, h, r) ==
  [sim \in BOOLEAN |->
     [steps |-> [a \in LegalNow(g, sim) |-> Returned(step(games[g], h, r, a, sim).res)],
      legal |-> LET l == legal_actions(games[g], h, r, sim) IN <<l.kind, l.list>>]]

\* C1: copy independence.  Whatever copies were made and however they were
\* stepped, every game answers step and legal_actions exactly as it would
\* had only its own calls acted on its environment.
C1_CopyIndependence ==
  \A g \in GameIds : Callable(g) =>
    \A r \in RandStates : Answers(g, heap, rand) = Answers(g, ShadowHeap(g), r)

\* C1 witness: a copy of the first game has been stepped past the original
C1_Witness ==
  /\ Callable(2)
  /\ heap[games[2].env].t > heap[games[1].env].t
  /\ ~heap[games[1].env].closed

\* C8: render isolation.  During a run of successive render() calls of one
\* game, the game answers step as it did before the first of them.
C8_RenderIsolation ==
  renders.count > 0 =>
    \A r \in RandStates :
      Answers(renders.g, heap, rand) = Answers(renders.g, HeapWith(renders.g, renders.before), r)

\* C8 witness: render() was called twice in succession
C8_Witness == renders.count >= 2 /\ games[renders.g].render_copy # 0

\* C10: reproducibility.  After set_seed(s); o1 = sample_action();
\* set_seed(s); o2 = sample_action() on one game in one mode, with no other
\* call in between, o1 = o2.
C10_Reproducibility ==
  repro.phase = 4 => repro.kind = repro.kind2 /\ repro.val = repro.val2

\* C10 witness: the four calls were made and both draws returned a value
C10_Witness == repro.phase = 4 /\ repro.kind = "ok" /\ repro.kind2 = "ok"

\* the macro-action variants that hold a macro-action table
TableKinds == {"Macro", "Multi"}

\* C3: a non-simulation step with a legal primitive action applies exactly
\* one primitive step to the game's own environment and returns that step's
\* (observation, reward, done), done being terminated or truncated; this
\* for every variant, the macro-action variants included.
C3_NonSimulationStep ==
  (ret.op = "step" /\ ~ret.sim) =>
    LET e == IF games[ret.g].kind = "Continuous"
             THEN EnvStep(ret.before, ret.arg)
             ELSE EnvStep(ret.before, Primitive(ret.arg))
    IN /\ ret.kind = "ok"
       /\ <<ret.obs, ret.rew, ret.div>> = <<e.obs, e.rew, 1>>
       /\ ret.done = (e.terminated \/ e.truncated)
       /\ heap[games[ret.g].env] = e.env

\* the composition the claim C2 describes: the primitives of mac in order
\* from the k-th on, stopping after the first one that returns done; the
\* result carries the sum of the rewards and the count of primitives run
RECURSIVE Composed(_, _, _, _)
Composed(e, mac, k, acc) ==
  IF k > Len(mac) \/ acc.done THEN [acc EXCEPT !.env = e]
  ELSE LET r == EnvStep(e, Primitive(mac[k]))
       IN Composed(r.env, mac, k + 1,
                   [env |-> r.env, obs |-> r.obs, sum |-> acc.sum + r.rew,
                    count |-> acc.count + 1, done |-> r.terminated \/ r.truncated])

\* C2: step(i, simulation=True) on a macro-action variant applies the
\* primitives of macro_actions[i] in order to the one environment, stops at
\* the first primitive that returns done, and returns the arithmetic mean of
\* the rewards of the primitives actually executed.
C2_MacroActionComposition ==
  (/\ ret.op = "step" /\ ret.sim
   /\ games[ret.g].kind \in TableKinds
   /\ Len(games[ret.g].macro[ret.arg + 1]) > 0) =>
    LET c == Composed(ret.before, games[ret.g].macro[ret.arg + 1], 1,
                      [env |-> ret.before, obs |-> 0, sum |-> 0, count |-> 0,
                       done |-> FALSE])
    IN /\ ret.kind = "ok"
       /\ ret.obs = c.obs /\ ret.done = c.done
       /\ ret.rew * c.count = c.sum * ret.div
       /\ heap[games[ret.g].env] = c.env

\* C4: for every current state and every primitive action, the macro-action
\* the dynamic generator produces has length at most max_macro_action_len.
C4_DynamicMacroActionCap ==
  \A g \in GameIds : (Callable(g) /\ games[g].kind = "Pendulum") =>
    LET m == macro_actions(games[g], heap, rand)
    IN /\ m.kind = "ok"
       /\ Len(m.table) = NumActions
       /\ \A i \in 1..Len(m.table) : Len(m.table[i]) <= games[g].cap

\* the repetition of primitive a, counted from k, at which the sign of
\* theta_dot first differs from sign; 0 when the episode ends or the cap is
\* passed before that
RECURSIVE FirstFlip(_, _, _, _, _)
FirstFlip(e, a, sign, k, cap) ==
  IF k > cap THEN 0
  ELSE LET r == EnvStep(e, Primitive(a))
       IN IF Sign(ObsThetaDot(r.obs)) # sign THEN k
          ELSE IF r.terminated \/ r.truncated THEN 0
          ELSE FirstFlip(r.env, a, sign, k + 1, cap)

\* C5: when the cap is not reached and the episode does not end, the
\* macro-action generated for a primitive has as its length the number of
\* repetitions at which the sign of the stopping feature reverses.
C5_DynamicMacroActionSignReversal ==
  \A g \in GameIds : (Callable(g) /\ games[g].kind = "Pendulum") =>
    \A a \in 0..(NumActions - 1) :
      LET e == heap[games[g].env]
          k == FirstFlip(e, a, Sign(ThetaDot(e)), 1, games[g].cap)
          m == macro_actions(games[g], heap, rand)
      IN k > 0 => (m.kind = "ok" /\ Len(m.table[a + 1]) = k)

\* C6: for every live instance, get_seed() is the value the generator the
\* instance draws from was last seeded with.
C6_SeedGeneratorAgreement ==
  \A g \in GameIds : games[g].live => get_seed(games[g]) = rand.seeded

\* C7: the first g.sample_action() after g.set_seed(s) returns what a
\* generator seeded with s gives, whatever set_seed, sample_action, get_copy
\* and render calls other instances made in between.
C7_PerInstanceRandomness ==
  (ret.op = "sample_action" /\ ret.seeded # NoSeed) =>
    LET o == sample_action(games[ret.g], heap, RandSeed(rand, ret.seeded), ret.sim)
    IN <<ret.kind, ret.val>> = <<o.kind, o.val>>

\* a macro-action variant whose macro-action table is empty
EmptyTable(g) ==
  /\ games[g].kind \in MacroKinds
  /\ LET m == macro_actions(games[g], heap, rand)
     IN m.kind = "ok" /\ Len(m.table) = 0

====
